---- MODULE Spec2Model ----
(***************************************************************************)
(* Model of setup.py: the provisioning script that clones flux-fp8-api,    *)
(* installs its dependencies, downloads the model files with               *)
(* huggingface-cli and launches main_gr.py.                                *)
(***************************************************************************)
EXTENDS Integers, Sequences, FiniteSets, TLC

\* Number of times the script is invoked one after the other.
MaxRuns == 2

----------------------------------------------------------------------------
\* Paths and file maps

repo_name == "flux-fp8-api"

t5_folder == "flux-fp8-api/t5"

model_files ==
    << [filename |-> "flux1-schnell-fp8-e4m3fn.safetensors", repo_id |-> "Kijai/flux-fp8",
        filename_in_repo |-> "flux1-schnell-fp8-e4m3fn.safetensors"] >>

encoder_files ==
    << [filename |-> "flux-vae-bf16.safetensors", repo_id |-> "Kijai/flux-fp8",
        filename_in_repo |-> "flux-vae-bf16.safetensors"] >>

t5_files ==
    << [filename |-> "model.safetensors", repo_id |-> "city96/t5-v1_1-xxl-encoder-bf16",
        filename_in_repo |-> "model.safetensors"],
       [filename |-> "config.json", repo_id |-> "city96/t5-v1_1-xxl-encoder-bf16",
        filename_in_repo |-> "config.json"],
       [filename |-> "special_tokens_map.json", repo_id |-> "city96/t5-v1_1-xxl-encoder-bf16",
        filename_in_repo |-> "special_tokens_map.json"],
       [filename |-> "spiece.model", repo_id |-> "city96/t5-v1_1-xxl-encoder-bf16",
        filename_in_repo |-> "spiece.model"],
       [filename |-> "tokenizer_config.json", repo_id |-> "city96/t5-v1_1-xxl-encoder-bf16",
        filename_in_repo |-> "tokenizer_config.json"] >>

\* The three setup_*_files calls of __main__: which map goes to which folder.
file_map(stage) ==
    CASE stage = "fetch_model"   -> model_files
      [] stage = "fetch_encoder" -> encoder_files
      [] stage = "fetch_t5"      -> t5_files

\* Variant: the T5 files are sent to the repository root as well.
dest_folder_flat(stage) == repo_name

dest_folder(stage) ==
    CASE stage = "fetch_model"   -> repo_name
      [] stage = "fetch_encoder" -> repo_name
      [] stage = "fetch_t5"      -> t5_folder

FetchStages == {"fetch_model", "fetch_encoder", "fetch_t5"}

\* Variant: the T5 files are fetched before the VAE.
StageAfter_swapped(stage) ==
    CASE stage = "clone"         -> "install"
      [] stage = "install"       -> "fetch_model"
      [] stage = "fetch_model"   -> "fetch_t5"
      [] stage = "fetch_t5"      -> "fetch_encoder"
      [] stage = "fetch_encoder" -> "chdir"
      [] stage = "chdir"         -> "launch"
      [] stage = "launch"        -> "finish"
      [] stage = "finish"        -> "done"

\* Order of the statements of the try block of __main__, then the lines after it.
StageAfter(stage) ==
    CASE stage = "clone"         -> "install"
      [] stage = "install"       -> "fetch_model"
      [] stage = "fetch_model"   -> "fetch_encoder"
      [] stage = "fetch_encoder" -> "fetch_t5"
      [] stage = "fetch_t5"      -> "chdir"
      [] stage = "chdir"         -> "launch"
      [] stage = "launch"        -> "finish"
      [] stage = "finish"        -> "done"

----------------------------------------------------------------------------
\* Environment variables

EnvVars == {"HF_HUB_ENABLE_HF_TRANSFER", "HF_HUB_DISABLE_SSL_VERIFY"}

EnvValues == {"unset", "0", "1"}

\* env = os.environ.copy() with the two variables set: the child's environment.
download_env(environ) ==
    [environ EXCEPT !["HF_HUB_ENABLE_HF_TRANSFER"] = "1",
                    !["HF_HUB_DISABLE_SSL_VERIFY"] = "1"]

\* Variant: env = os.environ (no copy), so the assignments reach os.environ.
environ_after_download_alias(environ) == download_env(environ)

\* os.environ after download_with_huggingface_cli built the child's
\* environment: the copy was modified, os.environ itself is untouched.
environ_after_download(environ) == environ

----------------------------------------------------------------------------
\* Outcomes of subprocess.run(..., check=True)

Outcomes == {"ok", "nonzero", "oserror"}

\* What subprocess.run raises.
subprocess_run(rc) ==
    CASE rc = "ok"      -> "none"
      [] rc = "nonzero" -> "CalledProcessError"
      [] rc = "oserror" -> "OSError"

\* Variant: the except clause prints and returns, sys.exit(1) is missing.
run_command_raises_noexit(exc) ==
    CASE exc = "CalledProcessError" -> "none"
      [] OTHER                      -> exc

\* Variant: the except clause catches every Exception, prints and returns.
run_command_raises_swallow(exc) == "none"

\* What leaves run_command: CalledProcessError is caught and turned into
\* sys.exit(1) (SystemExit); anything else propagates.
run_command_raises(exc) ==
    CASE exc = "none"               -> "none"
      [] exc = "CalledProcessError" -> "SystemExit"
      [] OTHER                      -> exc

\* What run_command prints besides "Running command".
run_command_prints(exc, command) ==
    IF exc = "CalledProcessError" THEN {<< "Command failed", command >>} ELSE {}

\* "except Exception" of __main__: SystemExit is a BaseException, not an
\* Exception, so it is not caught.
except_Exception(exc) == exc \notin {"none", "SystemExit"}

\* Variant: the handler of __main__ prints and falls through, sys.exit(1) is
\* missing.
exit_status_zero(exc) ==
    CASE exc = "SystemExit"    -> 1
      [] except_Exception(exc) -> 0

\* Exit status of the process when exc leaves the try block.
exit_status(exc) ==
    CASE exc = "SystemExit"    -> 1
      [] except_Exception(exc) -> 1

\* What the handler of __main__ prints.
main_prints(exc, what) ==
    IF except_Exception(exc) THEN {<< "An unexpected error occurred", what >>} ELSE {}

----------------------------------------------------------------------------
\* Filesystem helpers

Kinds == {"absent", "dir", "file"}

\* os.path.exists
exists(kind) == kind # "absent"

\* Variant: the existence check is missing, git clone always runs.
should_clone_always(kind) == TRUE

\* "if not os.path.exists(repo_name)" of clone_flux_repository
should_clone(kind) == ~exists(kind)

\* Variant: the existence check is missing, pip install -r always runs.
should_install_requirements_always(reqExists) == TRUE

\* "if os.path.exists(requirements_file)" of install_dependencies
should_install_requirements(reqExists) == reqExists

\* Variant: the directory is not created when it is absent.
makedirs_skip(kind) ==
    CASE kind = "dir"    -> {"dir"}
      [] kind = "file"   -> {"raise"}
      [] kind = "absent" -> {"absent"}

\* os.makedirs(dest_folder, exist_ok=True): the kinds the path may have
\* afterwards; "raise" is an OSError (a file is in the way, or the directory
\* cannot be created).
makedirs(kind) ==
    CASE kind = "dir"    -> {"dir"}
      [] kind = "file"   -> {"raise"}
      [] kind = "absent" -> {"dir", "raise"}

----------------------------------------------------------------------------
VARIABLES
    pc,         \* stage of __main__ the process is at
    step,       \* position inside the stage
    repo,       \* kind of the path flux-fp8-api
    req,        \* flux-fp8-api/requirements.txt exists
    t5,         \* kind of the path flux-fp8-api/t5
    files,      \* downloaded files, as <<folder, filename>>
    cwd,        \* working directory of the process
    inherited,  \* environment the shell starts the process with
    environ,    \* os.environ of the process
    log,        \* subprocesses run by this process, in order
    out,        \* messages printed by this process, as <<message, about>>
    exitCode,   \* exit status of the process, -1 while it runs
    run,        \* number of the current invocation of the script
    cloneRuns,  \* invocations in which git clone was run
    absentRuns  \* invocations that found flux-fp8-api absent

vars == << pc, step, repo, req, t5, files, cwd, inherited, environ, log, out,
           exitCode, run, cloneRuns, absentRuns >>

fsVars == << repo, req, t5, files >>

histVars == << cloneRuns, absentRuns >>

kindOf(folder) == IF folder = repo_name THEN repo ELSE t5

Init ==
    /\ pc = "clone"
    /\ step = 0
    /\ repo \in Kinds
    /\ req \in (IF repo = "dir" THEN BOOLEAN ELSE {FALSE})
    /\ t5 \in (IF repo = "dir" THEN Kinds ELSE {"absent"})
    /\ files = {}
    /\ cwd = "start"
    /\ inherited \in [EnvVars -> EnvValues]
    /\ environ = inherited
    /\ log = << >>
    /\ out = {}
    /\ exitCode = -1
    /\ run = 1
    /\ cloneRuns = {}
    /\ absentRuns = {}

----------------------------------------------------------------------------
\* Control flow shared by the steps

\* An exception exc leaves the current statement of the try block (or none
\* does, and the process goes on at stage nextPc, position nextStep).
Continue(exc, what, nextPc, nextStep, printed) ==
    IF exc = "none"
    THEN /\ pc' = nextPc
         /\ step' = nextStep
         /\ exitCode' = exitCode
         /\ out' = out \cup printed
    ELSE /\ pc' = "done"
         /\ step' = 0
         /\ exitCode' = exit_status(exc)
         /\ out' = out \cup printed \cup main_prints(exc, what)

\* run_command(command, env): the subprocess runs with outcome rc.
run_command(command, arg, dest, env, rc, nextPc, nextStep, printed) ==
    /\ log' = Append(log, [command |-> command, arg |-> arg, dest |-> dest,
                           env |-> env, rc |-> rc])
    /\ Continue(run_command_raises(subprocess_run(rc)), command, nextPc, nextStep,
                printed \cup run_command_prints(subprocess_run(rc), command))

----------------------------------------------------------------------------
\* Steps

clone_flux_repository ==
    /\ pc = "clone"
    /\ absentRuns' = IF exists(repo) THEN absentRuns ELSE absentRuns \cup {run}
    /\ IF should_clone(repo)
       THEN \E rc \in Outcomes :
              /\ run_command("git clone", "https://github.com/miike-ai/flux-fp8-api.git",
                             "", environ, rc, StageAfter("clone"), 0, {<< "Cloning repository", repo_name >>})
              /\ cloneRuns' = cloneRuns \cup {run}
              /\ CASE rc = "ok"      -> /\ repo' = "dir"
                                        /\ req' \in BOOLEAN
                                        /\ t5' = "absent"
                   [] rc = "nonzero" -> /\ repo' \in {"absent", "dir"}
                                        /\ req' = FALSE
                                        /\ t5' = "absent"
                   [] rc = "oserror" -> UNCHANGED << repo, req, t5 >>
       ELSE /\ Continue("none", "", StageAfter("clone"), 0, {<< "Skipping clone", repo_name >>})
            /\ UNCHANGED << log, cloneRuns, repo, req, t5 >>
    /\ UNCHANGED << files, cwd, inherited, environ, run >>

install_hub ==
    /\ pc = "install" /\ step = 0
    /\ \E rc \in Outcomes :
         run_command("pip install", "huggingface_hub[hf_transfer]", "", environ, rc,
                     "install", 1, {})
    /\ UNCHANGED << fsVars, cwd, inherited, environ, run, histVars >>

install_gradio ==
    /\ pc = "install" /\ step = 1
    /\ \E rc \in Outcomes :
         run_command("pip install", "gradio", "", environ, rc, "install", 2, {})
    /\ UNCHANGED << fsVars, cwd, inherited, environ, run, histVars >>

install_requirements ==
    /\ pc = "install" /\ step = 2
    /\ IF should_install_requirements(req)
       THEN \E rc \in Outcomes :
              run_command("pip install", "-r flux-fp8-api/requirements.txt", "", environ,
                          rc, StageAfter("install"), 0, {})
       ELSE /\ Continue("none", "", StageAfter("install"), 0, {<< "Requirements file not found", "flux-fp8-api/requirements.txt" >>})
            /\ UNCHANGED log
    /\ UNCHANGED << fsVars, cwd, inherited, environ, run, histVars >>

\* setup_files, first statement: os.makedirs(dest_folder, exist_ok=True)
setup_files_makedirs ==
    /\ pc \in FetchStages /\ step = 0
    /\ \E k \in makedirs(kindOf(dest_folder(pc))) :
         IF k = "raise"
         THEN /\ Continue("OSError", "makedirs " \o dest_folder(pc), pc, 1, {})
              /\ UNCHANGED << repo, t5 >>
         ELSE /\ Continue("none", "", pc, 1, {})
              /\ IF dest_folder(pc) = repo_name
                 THEN repo' = k /\ t5' = t5
                 ELSE t5' = k /\ repo' = repo
    /\ UNCHANGED << req, files, cwd, inherited, environ, log, run, histVars >>

\* setup_files, one iteration of the loop: download_with_huggingface_cli
download_with_huggingface_cli ==
    /\ pc \in FetchStages /\ step >= 1 /\ step <= Len(file_map(pc))
    /\ LET f    == file_map(pc)[step]
           last == step = Len(file_map(pc))
       IN \E rc \in Outcomes :
            /\ run_command("huggingface-cli download", f.filename_in_repo, dest_folder(pc),
                           download_env(environ), rc,
                           IF last THEN StageAfter(pc) ELSE pc,
                           IF last THEN 0 ELSE step + 1, {})
            /\ files' = IF rc = "ok"
                        THEN files \cup {<< dest_folder(pc), f.filename_in_repo >>}
                        ELSE files
    /\ environ' = environ_after_download(environ)
    /\ UNCHANGED << repo, req, t5, cwd, inherited, run, histVars >>

\* run_main_script, first part: os.chdir(repo_folder)
run_main_script_chdir ==
    /\ pc = "chdir"
    /\ \E ok \in (IF repo = "dir" THEN BOOLEAN ELSE {FALSE}) :
         IF ok
         THEN /\ Continue("none", "", StageAfter("chdir"), 0, {})
              /\ cwd' = repo_name
         ELSE /\ Continue("OSError", "chdir " \o repo_name, "launch", 0, {})
              /\ cwd' = cwd
    /\ UNCHANGED << fsVars, inherited, environ, log, run, histVars >>

\* run_main_script, second part: run_command([sys.executable, "main_gr.py"])
run_main_script_launch ==
    /\ pc = "launch"
    /\ \E rc \in Outcomes :
         run_command("python", "main_gr.py", "", environ, rc, StageAfter("launch"), 0, {})
    /\ UNCHANGED << fsVars, cwd, inherited, environ, run, histVars >>

\* The lines after the try block: the duration is printed and the script ends.
finish ==
    /\ pc = "finish"
    /\ pc' = StageAfter("finish")
    /\ step' = 0
    /\ out' = out \cup {<< "Process completed", "" >>}
    /\ exitCode' = 0
    /\ UNCHANGED << fsVars, cwd, inherited, environ, log, run, histVars >>

\* The script is invoked again, from the same directory and shell.
rerun ==
    /\ pc = "done"
    /\ run < MaxRuns
    /\ run' = run + 1
    /\ pc' = "clone"
    /\ step' = 0
    /\ cwd' = "start"
    /\ environ' = inherited
    /\ log' = << >>
    /\ out' = {}
    /\ exitCode' = -1
    /\ UNCHANGED << fsVars, inherited, histVars >>

Next ==
    \/ clone_flux_repository
    \/ install_hub
    \/ install_gradio
    \/ install_requirements
    \/ setup_files_makedirs
    \/ download_with_huggingface_cli
    \/ run_main_script_chdir
    \/ run_main_script_launch
    \/ finish
    \/ rerun

Spec == Init /\ [][Next]_vars

----------------------------------------------------------------------------
TypeOK ==
    /\ pc \in {"clone", "install", "fetch_model", "fetch_encoder", "fetch_t5",
               "chdir", "launch", "finish", "done"}
    /\ step \in 0..5
    /\ repo \in Kinds
    /\ req \in BOOLEAN
    /\ t5 \in Kinds
    /\ cwd \in {"start", repo_name}
    /\ exitCode \in {-1, 0, 1}
    /\ run \in 1..MaxRuns

----------------------------------------------------------------------------
\* Helpers of the properties

IsDownload(e) == e.command = "huggingface-cli download"

Last(s) == s[Len(s)]

Unexpected == {m \in out : m[1] = "An unexpected error occurred"}

Completed == << "Process completed", "" >> \in out

Count(s, P(_)) == Cardinality({i \in 1..Len(s) : P(s[i])})

----------------------------------------------------------------------------
\* C1: a wrapped command (git clone, pip install, huggingface-cli download,
\* main_gr.py) that returns a non-zero exit code ends the process with exit
\* code 1: it is the last command of the run, the process is over, its status
\* is 1 and the handler of __main__ has not taken the exit over.
C1_NonZeroExitsOne ==
    \A i \in 1..Len(log) :
        log[i].rc = "nonzero" =>
            /\ i = Len(log)
            /\ pc = "done"
            /\ exitCode = 1
            /\ Unexpected = {}

\* main_gr.py was launched and returned a non-zero exit code.
C1_Witness ==
    /\ Len(log) > 0
    /\ Last(log).command = "python"
    /\ Last(log).rc = "nonzero"
    /\ exitCode = 1

\* C2: once a huggingface-cli download has failed, nothing else is attempted:
\* the failed download is the last subprocess of the run, the working
\* directory is still the starting one, and the process has exited 1 without
\* the completion message.
C2_FailedDownloadStops ==
    \A i \in 1..Len(log) :
        (IsDownload(log[i]) /\ log[i].rc # "ok") =>
            /\ i = Len(log)
            /\ cwd = "start"
            /\ pc = "done"
            /\ exitCode = 1
            /\ ~Completed

\* The second T5 download failed after three successful downloads.
C2_Witness ==
    /\ Len(log) > 0
    /\ IsDownload(Last(log))
    /\ Last(log).dest = t5_folder
    /\ Last(log).arg = "config.json"
    /\ Last(log).rc = "nonzero"
    /\ Count(log, IsDownload) = 4
    /\ pc = "done"

\* C7: the completion message is printed and the exit code is 0 exactly when
\* every stage succeeded (every command run returned zero, main_gr.py was
\* launched, no exception reached the handler); every other finished run has
\* exit code 1 and no completion message, and a running process has not
\* printed it.
C7_ExitZeroIffAllSucceeded ==
    LET allSucceeded ==
            /\ Len(log) > 0
            /\ Last(log).command = "python"
            /\ \A i \in 1..Len(log) : log[i].rc = "ok"
            /\ Unexpected = {}
    IN /\ pc = "done" => /\ exitCode \in {0, 1}
                         /\ (exitCode = 0) <=> allSucceeded
                         /\ (exitCode = 0) <=> Completed
       /\ pc # "done" => /\ ~Completed
                         /\ exitCode = -1

\* A run that failed with an exception (os.makedirs on a path that is a file).
C7_Witness ==
    /\ pc = "done"
    /\ exitCode = 1
    /\ << "An unexpected error occurred", "makedirs flux-fp8-api" >> \in out
    /\ ~Completed

\* C8: a command whose executable cannot be spawned is handled by run_command
\* like a non-zero exit: run_command prints "Command failed" for it and exits
\* 1, and the error does not reach the handler of __main__.
C8_SpawnFailureHandledInRunCommand ==
    \A i \in 1..Len(log) :
        log[i].rc = "oserror" =>
            /\ << "Command failed", log[i].command >> \in out
            /\ Unexpected = {}
            /\ pc = "done"
            /\ exitCode = 1

\* C9: every huggingface-cli download runs with both variables set to "1";
\* every other subprocess runs with the environment the process inherited;
\* os.environ of the process is never changed.
C9_DownloadEnvOnly ==
    /\ environ = inherited
    /\ \A i \in 1..Len(log) :
         IF IsDownload(log[i])
         THEN /\ \A v \in EnvVars : log[i].env[v] = "1"
              /\ DOMAIN log[i].env = EnvVars
         ELSE log[i].env = inherited

\* main_gr.py was launched after the seven downloads, in a process that
\* inherited neither variable.
C9_Witness ==
    /\ Len(log) > 0
    /\ Last(log).command = "python"
    /\ Count(log, IsDownload) = 7
    /\ \A v \in EnvVars : inherited[v] = "unset"
    /\ \A v \in EnvVars : Last(log).env[v] = "unset"

----------------------------------------------------------------------------
\* The stages in the order the properties speak of, and the commands a stage
\* runs when it runs to its end: cloned tells whether git clone is run,
\* withReq whether pip install -r is.

StageOrder ==
    << "clone", "install", "fetch_model", "fetch_encoder", "fetch_t5", "chdir",
       "launch", "finish" >>

Index(stage) == CHOOSE n \in 1..Len(StageOrder) : StageOrder[n] = stage

Cmd(c, a, d) == [command |-> c, arg |-> a, dest |-> d]

Strip(s) == [i \in 1..Len(s) |-> Cmd(s[i].command, s[i].arg, s[i].dest)]

Hf(a, d) == Cmd("huggingface-cli download", a, d)

StageCmds(stage, cloned, withReq) ==
    CASE stage = "clone" ->
           IF cloned
           THEN << Cmd("git clone", "https://github.com/miike-ai/flux-fp8-api.git", "") >>
           ELSE << >>
      [] stage = "install" ->
           << Cmd("pip install", "huggingface_hub[hf_transfer]", ""),
              Cmd("pip install", "gradio", "") >>
           \o (IF withReq
               THEN << Cmd("pip install", "-r flux-fp8-api/requirements.txt", "") >>
               ELSE << >>)
      [] stage = "fetch_model" ->
           << Hf("flux1-schnell-fp8-e4m3fn.safetensors", "flux-fp8-api") >>
      [] stage = "fetch_encoder" ->
           << Hf("flux-vae-bf16.safetensors", "flux-fp8-api") >>
      [] stage = "fetch_t5" ->
           << Hf("model.safetensors", "flux-fp8-api/t5"),
              Hf("config.json", "flux-fp8-api/t5"),
              Hf("special_tokens_map.json", "flux-fp8-api/t5"),
              Hf("spiece.model", "flux-fp8-api/t5"),
              Hf("tokenizer_config.json", "flux-fp8-api/t5") >>
      [] stage = "launch" -> << Cmd("python", "main_gr.py", "") >>
      [] OTHER -> << >>

RECURSIVE CmdsUpTo(_, _, _)
CmdsUpTo(n, cloned, withReq) ==
    IF n = 0
    THEN << >>
    ELSE CmdsUpTo(n - 1, cloned, withReq) \o StageCmds(StageOrder[n], cloned, withReq)

IsPrefix(s, t) == Len(s) <= Len(t) /\ \A i \in 1..Len(s) : s[i] = t[i]

\* A change of stage is a move to the next stage of a process that has not
\* failed, the end of the process, or a new invocation.
StageStep ==
    pc' # pc =>
        \/ /\ pc # "done" /\ pc' # "done"
           /\ Index(pc') = Index(pc) + 1
           /\ exitCode' = -1
           /\ \A i \in 1..Len(log') : log'[i].rc = "ok"
        \/ pc = "finish" /\ pc' = "done" /\ exitCode' = 0
        \/ pc # "finish" /\ pc' = "done" /\ exitCode' = 1
        \/ pc = "done" /\ pc' = "clone" /\ run' = run + 1

\* The commands run so far are those of the stages before the current one,
\* each run to its end and in order, followed by commands of the current
\* stage only; cloneChoices are the ways the clone stage may go.
StagesInOrder(cloneChoices) ==
    \E cloned \in cloneChoices, withReq \in BOOLEAN :
        IF pc = "done"
        THEN IsPrefix(Strip(log), CmdsUpTo(Len(StageOrder), cloned, withReq))
        ELSE /\ IsPrefix(CmdsUpTo(Index(pc) - 1, cloned, withReq), Strip(log))
             /\ IsPrefix(Strip(log), CmdsUpTo(Index(pc), cloned, withReq))
             /\ \A i \in 1..Len(log) : log[i].rc = "ok"

\* C3 as stated: the stages run strictly in the order clone, install,
\* fetch-model, fetch-encoder, fetch-t5, working-directory switch, launch,
\* each after the success of the one before, and the only branch is whether
\* pip install -r is run (so git clone is run in every execution).
C3_OnlyRequirementsBranch == [][StageStep /\ StagesInOrder({TRUE})']_vars

\* C3, amended: the stages run strictly in that order, each after the
\* success of the one before, none re-entered or skipped; the branches are
\* whether git clone is run inside the clone stage and whether
\* pip install -r is run inside the install stage.
C3_StagesStrictlyInOrder == [][StageStep /\ StagesInOrder(BOOLEAN)']_vars

\* A run that skipped both git clone and pip install -r reached the end.
C3_Witness ==
    /\ pc = "done"
    /\ exitCode = 0
    /\ Len(log) = 10
    /\ log[1].command = "pip install"
    /\ log[10].command = "python"

----------------------------------------------------------------------------
\* When flux-fp8-api exists, clone_flux_repository runs no command and
\* leaves the filesystem as it is.
CloneSkipIsNoOp ==
    (pc = "clone" /\ repo # "absent") =>
        /\ log' = log
        /\ fsVars' = fsVars
        /\ cloneRuns' = cloneRuns

\* C4 as stated: an existing flux-fp8-api makes the clone step a no-op, and
\* git clone is run at most in the first invocation that found the
\* directory absent.
C4_CloneOnlyInFirstAbsentRun ==
    [][CloneSkipIsNoOp /\ (\A r \in cloneRuns' : \A a \in absentRuns' : r <= a)]_vars

\* C4, amended: an existing flux-fp8-api makes the clone step a no-op; git
\* clone is run only in invocations that found the directory absent, and
\* these are the first invocations: once one has found the directory, no
\* later one runs git clone.
C4_CloneOnlyWhileAbsent ==
    [][/\ CloneSkipIsNoOp
       /\ cloneRuns' \subseteq absentRuns'
       /\ \A r \in absentRuns' : \A q \in 1..r : q \in absentRuns']_vars

\* The first invocation cloned, the second found the directory and skipped.
C4_Witness ==
    /\ run = 2
    /\ cloneRuns = {1}
    /\ absentRuns = {1}
    /\ << "Skipping clone", "flux-fp8-api" >> \in out
    /\ log = << >>

----------------------------------------------------------------------------
IsPip(e) == e.command = "pip install"

ReqNotFound == << "Requirements file not found", "flux-fp8-api/requirements.txt" >>

\* C5: when requirements.txt is missing at the check, the two named installs
\* have been run, no pip command is run for the file, the message is
\* printed, the process does not exit and goes on with the model download;
\* a run that printed the message runs exactly two pip commands.
C5_MissingRequirementsSkipped ==
    [][/\ (pc = "install" /\ step = 2 /\ ~req) =>
             /\ Strip(log') = Strip(log)
             /\ Count(log, IsPip) = 2
             /\ \E i, j \in 1..Len(log) :
                    /\ i < j
                    /\ log[i].arg = "huggingface_hub[hf_transfer]" /\ log[i].rc = "ok"
                    /\ log[j].arg = "gradio" /\ log[j].rc = "ok"
             /\ ReqNotFound \in out'
             /\ exitCode' = -1
             /\ pc' = "fetch_model" /\ step' = 0
       /\ (ReqNotFound \in out') => Count(log', IsPip) = 2]_vars

\* The file was missing and the process is at the first model download.
C5_Witness ==
    /\ ReqNotFound \in out
    /\ pc = "fetch_model"
    /\ step = 1
    /\ Count(log, IsPip) = 2
    /\ exitCode = -1

----------------------------------------------------------------------------
IsClone(e) == e.command = "git clone"

FreshRunSucceeded == run = 1 /\ 1 \in absentRuns /\ pc = "done" /\ exitCode = 0

Args(folder) == {log[i].arg : i \in {j \in 1..Len(log) : IsDownload(log[j]) /\ log[j].dest = folder}}

DownloadPlacement ==
    /\ Args("flux-fp8-api") =
           {"flux1-schnell-fp8-e4m3fn.safetensors", "flux-vae-bf16.safetensors"}
    /\ Args("flux-fp8-api/t5") =
           {"model.safetensors", "config.json", "special_tokens_map.json",
            "spiece.model", "tokenizer_config.json"}
    /\ files = ({"flux-fp8-api"} \X Args("flux-fp8-api"))
                   \cup ({"flux-fp8-api/t5"} \X Args("flux-fp8-api/t5"))

\* C6 as stated: a successful run from no prior state runs exactly one
\* clone, three package installs and eight downloads, the two weight files
\* into the repository root and the five T5 files into t5.
C6_OneThreeEight ==
    FreshRunSucceeded =>
        /\ Count(log, IsClone) = 1
        /\ Count(log, IsPip) = 3
        /\ Count(log, IsDownload) = 8
        /\ DownloadPlacement

\* C6, amended: a successful run from no prior state runs exactly one
\* clone, seven downloads (1 model + 1 decoder + 5 T5 files), and three
\* package installs when the clone contains requirements.txt, two when it
\* does not; the two weight files go into the repository root and the five
\* T5 files into t5.
C6_OneThreeSeven ==
    FreshRunSucceeded =>
        /\ Count(log, IsClone) = 1
        /\ Count(log, IsPip) = (IF req THEN 3 ELSE 2)
        /\ Count(log, IsDownload) = 7
        /\ DownloadPlacement

\* A successful first run that cloned a repository with requirements.txt.
C6_Witness ==
    /\ FreshRunSucceeded
    /\ req
    /\ Len(log) = 12

----------------------------------------------------------------------------
KindOfPath(folder) ==
    CASE folder = "flux-fp8-api"    -> repo
      [] folder = "flux-fp8-api/t5" -> t5
      [] OTHER                      -> "absent"

\* C10: a download is attempted only into a directory that exists at that
\* moment, and a run in which os.makedirs failed for a folder has attempted
\* no download into it.
C10_DestinationExists ==
    [][/\ (Len(log') = Len(log) + 1 /\ IsDownload(Last(log'))) =>
             KindOfPath(Last(log').dest) = "dir"
       /\ \A i \in 1..Len(log') :
             IsDownload(log'[i]) =>
                 << "An unexpected error occurred", "makedirs " \o log'[i].dest >> \notin out']_vars

\* The first T5 file was downloaded into a t5 directory that setup_files
\* created in this run.
C10_Witness ==
    /\ run = 1
    /\ 1 \in absentRuns
    /\ t5 = "dir"
    /\ Len(log) > 0
    /\ IsDownload(Last(log))
    /\ Last(log).dest = "flux-fp8-api/t5"
    /\ Last(log).arg = "model.safetensors"

====
